---- MODULE Spec2Model ----
(***************************************************************************)
(* Korean N-line poetry (행시) generator: src/app.py.                       *)
(*                                                                         *)
(* A Python str is modelled as a sequence of Unicode code points, None as  *)
(* the one-element sequence NoneVal.  Every literal of app.py is spelled   *)
(* out code point by code point so that prefix tests, substring tests,     *)
(* trimming and splitting are computed, not assumed.                       *)
(***************************************************************************)
EXTENDS Integers, Sequences, FiniteSets, TLC

VARIABLES
    api_key,        \* os.environ.get("GEMINI_API_KEY"): NoneVal, "" or a key
    client,         \* st.cache_resource slot of get_gemini_client: "none" | "cached"
    user_input,     \* value of the st.text_input widget in the session
    trigger,        \* what started the latest render pass of main()
    pc,             \* "idle" between passes, "generating" inside generate_content
    screen,         \* elements emitted by the latest pass, from app.py:103 on
    clean_word,     \* local clean_word of main (NoneVal outside the else branch)
    request,        \* arguments of the latest client.models.generate_content call
    response,       \* outcome of the latest generate_content call
    poetry,         \* local poetry of main (NoneVal when not assigned)
    valid_submits,  \* history: those clicks made with a valid word
    api_calls       \* history: calls of client.models.generate_content

vars == <<api_key, client, user_input, trigger, pc, screen, clean_word, request,
          response, poetry, valid_submits, api_calls>>

----------------------------------------------------------------------------
(* Literals of app.py *)

\* app.py:12  "GEMINI_API_KEY 환경변수가 설정되지 않았습니다."
MSG_NO_KEY ==
    <<71, 69, 77, 73, 78, 73, 95, 65, 80, 73, 95, 75, 69, 89, 32, 54872, 44221, 48320, 49688,
      44032, 32, 49444, 51221, 46104, 51648, 32, 50506, 50520, 49845, 45768, 45796, 46>>

\* app.py:107  "Gemini API 초기화 실패: "
MSG_INIT_FAIL ==
    <<71, 101, 109, 105, 110, 105, 32, 65, 80, 73, 32, 52488, 44592, 54868, 32, 49892, 54056,
      58, 32>>

\* app.py:32  "당신은 한국어 행시 전문가입니다. 주어진 단어의 각 글자로 시작하는 행시를 만들어주세요.\n\n규칙:\n1. 단어 '"
PROMPT_HEAD ==
    <<45817, 49888, 51008, 32, 54620, 44397, 50612, 32, 54665, 49884, 32, 51204, 47928, 44032,
      51077, 45768, 45796, 46, 32, 51452, 50612, 51652, 32, 45800, 50612, 51032, 32, 44033, 32,
      44544, 51088, 47196, 32, 49884, 51089, 54616, 45716, 32, 54665, 49884, 47484, 32, 47564,
      46308, 50612, 51452, 49464, 50836, 46, 10, 10, 44508, 52825, 58, 10, 49, 46, 32, 45800,
      50612, 32, 39>>

\* app.py:34  "'의 각 글자로 시작하는 행시를 만드세요\n2. 각 행은 해당 글자를 대괄호로 감싸서 시작해야 합니다 (예: [바], [다])\n3. 각 행은 의미있고 아름다운 문장이어야 합니다\n4. 전체적으로 통일감 있는 주제나 이야기가 있으면 좋습니다\n5. 각 행은 10-20자 정도의 적당한 길이로 만드세요\n\n단어: "
PROMPT_MID ==
    <<39, 51032, 32, 44033, 32, 44544, 51088, 47196, 32, 49884, 51089, 54616, 45716, 32, 54665,
      49884, 47484, 32, 47564, 46300, 49464, 50836, 10, 50, 46, 32, 44033, 32, 54665, 51008,
      32, 54644, 45817, 32, 44544, 51088, 47484, 32, 45824, 44292, 54840, 47196, 32, 44048,
      49912, 49436, 32, 49884, 51089, 54644, 50556, 32, 54633, 45768, 45796, 32, 40, 50696, 58,
      32, 91, 48148, 93, 44, 32, 91, 45796, 93, 41, 10, 51, 46, 32, 44033, 32, 54665, 51008,
      32, 51032, 48120, 51080, 44256, 32, 50500, 47492, 45796, 50868, 32, 47928, 51109, 51060,
      50612, 50556, 32, 54633, 45768, 45796, 10, 52, 46, 32, 51204, 52404, 51201, 51004, 47196,
      32, 53685, 51068, 44048, 32, 51080, 45716, 32, 51452, 51228, 45208, 32, 51060, 50556,
      44592, 44032, 32, 51080, 51004, 47732, 32, 51339, 49845, 45768, 45796, 10, 53, 46, 32,
      44033, 32, 54665, 51008, 32, 49, 48, 45, 50, 48, 51088, 32, 51221, 46020, 51032, 32,
      51201, 45817, 54620, 32, 44600, 51060, 47196, 32, 47564, 46300, 49464, 50836, 10, 10,
      45800, 50612, 58, 32>>

\* app.py:39  "\n\n행시를 만들어주세요:"
PROMPT_TAIL ==
    <<10, 10, 54665, 49884, 47484, 32, 47564, 46308, 50612, 51452, 49464, 50836, 58>>

\* app.py:44  "gemini-2.5-flash"
MODEL_ID ==
    <<103, 101, 109, 105, 110, 105, 45, 50, 46, 53, 45, 102, 108, 97, 115, 104>>

\* app.py:51  "행시 생성에 실패했습니다. 다시 시도해주세요."
MSG_GEN_FAILED ==
    <<54665, 49884, 32, 49373, 49457, 50640, 32, 49892, 54056, 54664, 49845, 45768, 45796, 46,
      32, 45796, 49884, 32, 49884, 46020, 54644, 51452, 49464, 50836, 46>>

\* app.py:55  "ascii"
STR_ascii ==
    <<97, 115, 99, 105, 105>>

\* app.py:55  "codec"
STR_codec ==
    <<99, 111, 100, 101, 99>>

\* app.py:56  "한글 처리 오류가 발생했습니다. 잠시 후 다시 시도해주세요."
MSG_ENCODING ==
    <<54620, 44544, 32, 52376, 47532, 32, 50724, 47448, 44032, 32, 48156, 49373, 54664, 49845,
      45768, 45796, 46, 32, 51104, 49884, 32, 54980, 32, 45796, 49884, 32, 49884, 46020, 54644,
      51452, 49464, 50836, 46>>

\* app.py:57  "API 오류가 발생했습니다: "
MSG_API_ERROR ==
    <<65, 80, 73, 32, 50724, 47448, 44032, 32, 48156, 49373, 54664, 49845, 45768, 45796, 58,
      32>>

\* app.py:111  "단어 입력"
HDR_INPUT ==
    <<45800, 50612, 32, 51077, 47141>>

\* app.py:115  "행시를 만들 한국어 단어를 입력하세요:"
LBL_INPUT ==
    <<54665, 49884, 47484, 32, 47564, 46308, 32, 54620, 44397, 50612, 32, 45800, 50612, 47484,
      32, 51077, 47141, 54616, 49464, 50836, 58>>

\* app.py:124  "행시 생성하기"
LBL_GENERATE ==
    <<54665, 49884, 32, 49373, 49457, 54616, 44592>>

\* app.py:129  "⚠️ 한국어 단어를 입력해주세요."
WARN_NOT_KOREAN ==
    <<9888, 65039, 32, 54620, 44397, 50612, 32, 45800, 50612, 47484, 32, 51077, 47141, 54644,
      51452, 49464, 50836, 46>>

\* app.py:131  "⚠️ 10자 이하의 단어를 입력해주세요."
WARN_TOO_LONG ==
    <<9888, 65039, 32, 49, 48, 51088, 32, 51060, 54616, 51032, 32, 45800, 50612, 47484, 32,
      51077, 47141, 54644, 51452, 49464, 50836, 46>>

\* app.py:133  "⚠️ 2자 이상의 단어를 입력해주세요."
WARN_TOO_SHORT ==
    <<9888, 65039, 32, 50, 51088, 32, 51060, 49345, 51032, 32, 45800, 50612, 47484, 32, 51077,
      47141, 54644, 51452, 49464, 50836, 46>>

\* app.py:138  "단어를 입력해주세요."
ERR_EMPTY ==
    <<45800, 50612, 47484, 32, 51077, 47141, 54644, 51452, 49464, 50836, 46>>

\* app.py:140  "한국어 단어를 입력해주세요."
ERR_NOT_KOREAN ==
    <<54620, 44397, 50612, 32, 45800, 50612, 47484, 32, 51077, 47141, 54644, 51452, 49464,
      50836, 46>>

\* app.py:142  "10자 이하의 단어를 입력해주세요."
ERR_TOO_LONG ==
    <<49, 48, 51088, 32, 51060, 54616, 51032, 32, 45800, 50612, 47484, 32, 51077, 47141, 54644,
      51452, 49464, 50836, 46>>

\* app.py:144  "2자 이상의 단어를 입력해주세요."
ERR_TOO_SHORT ==
    <<50, 51088, 32, 51060, 49345, 51032, 32, 45800, 50612, 47484, 32, 51077, 47141, 54644,
      51452, 49464, 50836, 46>>

\* app.py:150  "'"
QUOTE ==
    <<39>>

\* app.py:150  "' 행시를 생성하고 있습니다..."
MSG_SPINNER_TAIL ==
    <<39, 32, 54665, 49884, 47484, 32, 49373, 49457, 54616, 44256, 32, 51080, 49845, 45768,
      45796, 46, 46, 46>>

\* app.py:155  "생성된 행시"
HDR_RESULT ==
    <<49373, 49457, 46108, 32, 54665, 49884>>

\* app.py:159  "---"
DIVIDER ==
    <<45, 45, 45>>

\* app.py:162  "**주제어:** "
LBL_SUBJECT ==
    <<42, 42, 51452, 51228, 50612, 58, 42, 42, 32>>

\* app.py:166  "행시 생성에 실패"
PREFIX_GEN_FAILED ==
    <<54665, 49884, 32, 49373, 49457, 50640, 32, 49892, 54056>>

\* app.py:166  "API 오류"
PREFIX_API_ERROR ==
    <<65, 80, 73, 32, 50724, 47448>>

\* app.py:171  "**"
BOLD ==
    <<42, 42>>

\* app.py:174  "✅ 행시가 성공적으로 생성되었습니다!"
MSG_SUCCESS ==
    <<9989, 32, 54665, 49884, 44032, 32, 49457, 44277, 51201, 51004, 47196, 32, 49373, 49457,
      46104, 50632, 49845, 45768, 45796, 33>>

\* app.py:177  "다른 행시 생성하기"
LBL_REGENERATE ==
    <<45796, 47480, 32, 54665, 49884, 32, 49373, 49457, 54616, 44592>>

\* app.py:185  "<div style='text-align: center; color: #666;'>Powered by Google Gemini AI</div>"
FOOTER ==
    <<60, 100, 105, 118, 32, 115, 116, 121, 108, 101, 61, 39, 116, 101, 120, 116, 45, 97, 108,
      105, 103, 110, 58, 32, 99, 101, 110, 116, 101, 114, 59, 32, 99, 111, 108, 111, 114, 58,
      32, 35, 54, 54, 54, 59, 39, 62, 80, 111, 119, 101, 114, 101, 100, 32, 98, 121, 32, 71,
      111, 111, 103, 108, 101, 32, 71, 101, 109, 105, 110, 105, 32, 65, 73, 60, 47, 100, 105,
      118, 62>>

(* Inputs of the checks: words, API texts, exception messages *)

\* "바다"
WORD_BADA ==
    <<48148, 45796>>

\* "[바]람이 분다\n[다]정히 웃는다"
EXAMPLE_POEM ==
    <<91, 48148, 93, 46988, 51060, 32, 48516, 45796, 10, 91, 45796, 93, 51221, 55176, 32,
      50883, 45716, 45796>>

\* "[바]람\r\n\r\n\u3000[다]정 "
CRLF_POEM ==
    <<91, 48148, 93, 46988, 13, 10, 13, 10, 12288, 91, 45796, 93, 51221, 32>>

\* "행시 생성에 실패는 없다"
FAKE_GEN_FAILED ==
    <<54665, 49884, 32, 49373, 49457, 50640, 32, 49892, 54056, 45716, 32, 50630, 45796>>

\* "API 오류 없는 하루"
FAKE_API_ERROR ==
    <<65, 80, 73, 32, 50724, 47448, 32, 50630, 45716, 32, 54616, 47336>>

\* "'ascii' codec can't encode"
ERR_CODEC_FULL ==
    <<39, 97, 115, 99, 105, 105, 39, 32, 99, 111, 100, 101, 99, 32, 99, 97, 110, 39, 116, 32,
      101, 110, 99, 111, 100, 101>>

\* "UTF-8 CODEC error"
ERR_CODEC_UPPER ==
    <<85, 84, 70, 45, 56, 32, 67, 79, 68, 69, 67, 32, 101, 114, 114, 111, 114>>

\* "AsCiI"
ERR_ASCII_MIXED ==
    <<65, 115, 67, 105, 73>>

\* "asci code c"
ERR_NEAR_MISS ==
    <<97, 115, 99, 105, 32, 99, 111, 100, 101, 32, 99>>

\* "timeout"
ERR_TIMEOUT ==
    <<116, 105, 109, 101, 111, 117, 116>>
----------------------------------------------------------------------------
(* Bounds and inputs *)

MaxInputLen == 2
MaxWordLen == 11
MaxRespLen == 3
MaxCalls == 2

\* first and last Hangul syllable, app.py:73
HANGUL_FIRST == 44032
HANGUL_LAST == 55203
\* length limits of a word, app.py:141 and app.py:143
MAX_LEN == 10
MIN_LEN == 2

NoneVal == <<-1>>

RECURSIVE SeqsUpTo(_, _)
SeqsUpTo(S, n) ==
    IF n = 0 THEN {<<>>}
    ELSE LET shorter == SeqsUpTo(S, n - 1)
         IN  shorter \cup {Append(s, c) : s \in {t \in shorter : Len(t) = n - 1}, c \in S}

Rep(c, n) == [i \in 1..n |-> c]

\* the first Hangul syllable, a space, "a"
InputAlphabet == {HANGUL_FIRST, 32, 97}

\* every short text, Hangul words of every length up to MaxWordLen, padded words
\* around the upper limit, and texts around the two ends of the Hangul block
Inputs ==
    SeqsUpTo(InputAlphabet, MaxInputLen)
        \cup {Rep(HANGUL_FIRST, n) : n \in 1..MaxWordLen}
        \cup {<<32>> \o Rep(HANGUL_LAST, n) \o <<32, 9>> : n \in (MAX_LEN - 1)..MaxWordLen}
        \cup {<<c, 97>> : c \in {HANGUL_FIRST - 1, HANGUL_LAST, HANGUL_LAST + 1}}
        \cup {Rep(97, MaxWordLen), <<12288, HANGUL_LAST, 10>>, <<12593, 12596>>, <<33, 63>>,
              WORD_BADA, <<12288>> \o WORD_BADA \o <<10>>}

ApiKeys == {NoneVal, <<>>, <<107>>}

\* a Hangul syllable, a space, a line feed
RespAlphabet == {HANGUL_FIRST, 32, 10}

RespTexts ==
    SeqsUpTo(RespAlphabet, MaxRespLen)
        \cup {NoneVal, EXAMPLE_POEM, CRLF_POEM, FAKE_GEN_FAILED, FAKE_API_ERROR,
              <<32>> \o FAKE_API_ERROR, <<10>> \o MSG_GEN_FAILED, MSG_ENCODING}

ErrMsgs ==
    {<<>>, STR_ascii, STR_codec, ERR_CODEC_FULL, ERR_CODEC_UPPER, ERR_ASCII_MIXED,
     ERR_NEAR_MISS, ERR_TIMEOUT, PREFIX_GEN_FAILED, <<32>> \o STR_codec \o <<10>>}

Responses ==
    [kind : {"text"}, text : RespTexts] \cup [kind : {"raise"}, text : ErrMsgs]

NoResponse == [kind |-> "none", text |-> NoneVal]
NoRequest == [model |-> NoneVal, contents |-> NoneVal]

\* messages genai.Client(api_key=...) can raise with
CtorErrs == {<<98, 97, 100>>}

----------------------------------------------------------------------------
(* Python str operations *)

\* str.isspace() of one character, as str.strip() uses it
IsSpace(c) ==
    c \in (9..13) \cup (28..32) \cup {133, 160, 5760} \cup (8192..8202)
          \cup {8232, 8233, 8239, 8287, 12288}

RECURSIVE LStrip(_)
LStrip(s) == IF s # <<>> /\ IsSpace(Head(s)) THEN LStrip(Tail(s)) ELSE s

RECURSIVE RStrip(_)
RStrip(s) ==
    IF s # <<>> /\ IsSpace(s[Len(s)]) THEN RStrip(SubSeq(s, 1, Len(s) - 1)) ELSE s

\* s.strip()
Strip(s) == RStrip(LStrip(s))

\* s.lower(), on the ASCII letters
Lower(s) == [i \in DOMAIN s |-> IF s[i] \in 65..90 THEN s[i] + 32 ELSE s[i]]

\* needle in hay
Contains(needle, hay) ==
    \E i \in 0..(Len(hay) - Len(needle)) : SubSeq(hay, i + 1, i + Len(needle)) = needle

\* s.startswith(p)
StartsWith(s, p) == Len(p) <= Len(s) /\ SubSeq(s, 1, Len(p)) = p

\* s.split('\n')
RECURSIVE Split(_, _)
Split(s, sep) ==
    IF \E i \in DOMAIN s : s[i] = sep
    THEN LET i == CHOOSE j \in DOMAIN s : s[j] = sep /\ \A k \in 1..(j - 1) : s[k] # sep
         IN  <<SubSeq(s, 1, i - 1)>> \o Split(SubSeq(s, i + 1, Len(s)), sep)
    ELSE <<s>>

\* bool(v) of an optional str
Truthy(v) == v # NoneVal /\ v # <<>>

----------------------------------------------------------------------------
(* get_gemini_client, validate_korean_input, generate_korean_poetry *)

IsHangul_ExclusiveEnd(c) == HANGUL_FIRST <= c /\ c < HANGUL_LAST

IsHangul(c) == HANGUL_FIRST <= c /\ c <= HANGUL_LAST

validate_korean_input(text) ==
    IF ~Truthy(text) \/ ~Truthy(Strip(text))
    THEN FALSE
    ELSE LET korean_chars == SelectSeq(text, IsHangul)
         IN  Len(korean_chars) > 0

BuildPrompt(word) ==
    LET cw == Strip(word)
    IN  PROMPT_HEAD \o cw \o PROMPT_MID \o cw \o PROMPT_TAIL

PoetryOf_CaseSensitive(resp) ==
    IF resp.kind = "raise"
    THEN IF Contains(STR_ascii, resp.text) \/ Contains(STR_codec, resp.text)
         THEN MSG_ENCODING
         ELSE MSG_API_ERROR \o resp.text
    ELSE IF Truthy(resp.text) THEN Strip(resp.text) ELSE MSG_GEN_FAILED

PoetryOf_Untrimmed(resp) ==
    IF resp.kind = "raise"
    THEN IF Contains(STR_ascii, Lower(resp.text)) \/ Contains(STR_codec, Lower(resp.text))
         THEN MSG_ENCODING
         ELSE MSG_API_ERROR \o resp.text
    ELSE IF Truthy(resp.text) THEN resp.text ELSE MSG_GEN_FAILED

\* what generate_korean_poetry returns once generate_content has come back as resp
PoetryOf(resp) ==
    IF resp.kind = "raise"
    THEN LET error_msg == resp.text
         IN  IF Contains(STR_ascii, Lower(error_msg)) \/ Contains(STR_codec, Lower(error_msg))
             THEN MSG_ENCODING
             ELSE MSG_API_ERROR \o error_msg
    ELSE IF Truthy(resp.text)
         THEN Strip(resp.text)
         ELSE MSG_GEN_FAILED

----------------------------------------------------------------------------
(* The page: what one pass of main() emits *)

El(kind, body) == [kind |-> kind, body |-> body]

FormArea(text) ==
    <<El("subheader", HDR_INPUT), El("text_input", text), El("button", LBL_GENERATE)>>

InputWarning(text) ==
    IF Truthy(text)
    THEN IF ~validate_korean_input(text) THEN <<El("warning", WARN_NOT_KOREAN)>>
         ELSE IF Len(Strip(text)) > MAX_LEN THEN <<El("warning", WARN_TOO_LONG)>>
         ELSE IF Len(Strip(text)) < MIN_LEN THEN <<El("warning", WARN_TOO_SHORT)>>
         ELSE <<>>
    ELSE <<>>

SubmitError_NoMinimum(text) ==
    IF ~Truthy(text) \/ ~Truthy(Strip(text)) THEN <<El("error", ERR_EMPTY)>>
    ELSE IF ~validate_korean_input(text) THEN <<El("error", ERR_NOT_KOREAN)>>
    ELSE IF Len(Strip(text)) > MAX_LEN THEN <<El("error", ERR_TOO_LONG)>>
    ELSE <<>>

SubmitError_LimitOffByOne(text) ==
    IF ~Truthy(text) \/ ~Truthy(Strip(text)) THEN <<El("error", ERR_EMPTY)>>
    ELSE IF ~validate_korean_input(text) THEN <<El("error", ERR_NOT_KOREAN)>>
    ELSE IF Len(Strip(text)) > MAX_LEN + 1 THEN <<El("error", ERR_TOO_LONG)>>
    ELSE IF Len(Strip(text)) < MIN_LEN THEN <<El("error", ERR_TOO_SHORT)>>
    ELSE <<>>

SubmitError(text) ==
    IF ~Truthy(text) \/ ~Truthy(Strip(text)) THEN <<El("error", ERR_EMPTY)>>
    ELSE IF ~validate_korean_input(text) THEN <<El("error", ERR_NOT_KOREAN)>>
    ELSE IF Len(Strip(text)) > MAX_LEN THEN <<El("error", ERR_TOO_LONG)>>
    ELSE IF Len(Strip(text)) < MIN_LEN THEN <<El("error", ERR_TOO_SHORT)>>
    ELSE <<>>

Spinner(word) == <<El("spinner", QUOTE \o word \o MSG_SPINNER_TAIL)>>

IsSuccessText_OnePrefix(p) == Truthy(p) /\ ~StartsWith(p, PREFIX_API_ERROR)

IsSuccessText(p) ==
    Truthy(p) /\ ~StartsWith(p, PREFIX_GEN_FAILED) /\ ~StartsWith(p, PREFIX_API_ERROR)

NonBlank_Untrimmed(line) == line # <<>>

NonBlank(line) == Strip(line) # <<>>

PoemLines(p) ==
    LET poetry_lines == SelectSeq(Split(p, 10), NonBlank)
    IN  [i \in DOMAIN poetry_lines |-> El("markdown", BOLD \o Strip(poetry_lines[i]) \o BOLD)]

ResultArea(word, p) ==
    <<El("subheader", HDR_RESULT), El("markdown", DIVIDER),
      El("markdown", LBL_SUBJECT \o word), El("markdown", <<>>)>>
        \o (IF IsSuccessText(p)
            THEN PoemLines(p)
                     \o <<El("markdown", DIVIDER), El("success", MSG_SUCCESS),
                          El("button", LBL_REGENERATE)>>
            ELSE <<El("error", p)>>)

Footer == <<El("markdown", DIVIDER), El("markdown", FOOTER)>>

HasElement(e) == \E i \in DOMAIN screen : screen[i] = e
HasKind(k) == \E i \in DOMAIN screen : screen[i].kind = k

----------------------------------------------------------------------------
(* Actions: one per user interaction, one for the return of the API call *)

Init ==
    /\ api_key \in ApiKeys
    /\ client = "none"
    /\ user_input = <<>>
    /\ trigger = "none"
    /\ pc = "idle"
    /\ screen = <<>>
    /\ clean_word = NoneVal
    /\ request = NoRequest
    /\ response = NoResponse
    /\ poetry = NoneVal
    /\ valid_submits = 0
    /\ api_calls = 0

\* a word as the data model defines it valid: 2 to 10 trimmed characters, one Hangul
IsValidWord(text) ==
    /\ Len(Strip(text)) \in MIN_LEN..MAX_LEN
    /\ \E i \in DOMAIN text : text[i] \in HANGUL_FIRST..HANGUL_LAST

StopsAtClient_OnlyUnset(ctor) ==
    client = "none" /\ (api_key = NoneVal \/ ctor # NoneVal)

\* app.py:7-14 and 103-108: the pass stops before the form
StopsAtClient(ctor) ==
    client = "none" /\ (~Truthy(api_key) \/ ctor # NoneVal)

StopScreen(ctor) ==
    IF ~Truthy(api_key) THEN <<El("error", MSG_NO_KEY)>>
    ELSE <<El("error", MSG_INIT_FAIL \o ctor)>>

\* a pass of main() with generate_button False, the text field holding text
PlainPass(text, why, ctor) ==
    /\ pc = "idle"
    /\ trigger' = why
    /\ user_input' = text
    /\ IF StopsAtClient(ctor)
       THEN /\ screen' = StopScreen(ctor)
            /\ client' = client
       ELSE /\ screen' = FormArea(text) \o InputWarning(text) \o Footer
            /\ client' = "cached"
    /\ clean_word' = NoneVal
    /\ request' = NoRequest
    /\ response' = NoResponse
    /\ poetry' = NoneVal
    /\ UNCHANGED <<api_key, pc, valid_submits, api_calls>>

\* the browser opens or reloads the page: a new session, the text field at its default
PageLoad ==
    \E ctor \in CtorErrs \cup {NoneVal} : PlainPass(<<>>, "load", ctor)

\* the user changes the text field
EditText ==
    /\ HasKind("text_input")
    /\ \E text \in Inputs \ {user_input} : PlainPass(text, "edit", NoneVal)

ClickRegenerate_Reruns ==
    /\ HasElement(El("button", LBL_REGENERATE))
    /\ api_calls < MaxCalls
    /\ trigger' = "regenerate"
    /\ screen' = FormArea(user_input) \o InputWarning(user_input) \o Spinner(clean_word)
    /\ request' = [model |-> MODEL_ID, contents |-> BuildPrompt(clean_word)]
    /\ api_calls' = api_calls + 1
    /\ pc' = "generating"
    /\ response' = NoResponse
    /\ poetry' = NoneVal
    /\ UNCHANGED <<api_key, client, user_input, clean_word, valid_submits>>

\* the user clicks "다른 행시 생성하기": the rerun has generate_button False
ClickRegenerate ==
    /\ HasElement(El("button", LBL_REGENERATE))
    /\ PlainPass(user_input, "regenerate", NoneVal)

\* the user clicks "행시 생성하기"
ClickGenerate ==
    /\ pc = "idle"
    /\ HasKind("text_input")
    /\ api_calls < MaxCalls /\ valid_submits < MaxCalls
    /\ trigger' = "generate"
    /\ valid_submits' = valid_submits + (IF IsValidWord(user_input) THEN 1 ELSE 0)
    /\ IF SubmitError(user_input) # <<>>
       THEN /\ screen' = FormArea(user_input) \o InputWarning(user_input)
                             \o SubmitError(user_input) \o Footer
            /\ clean_word' = NoneVal
            /\ request' = NoRequest
            /\ UNCHANGED <<pc, api_calls>>
       ELSE /\ clean_word' = Strip(user_input)
            /\ screen' = FormArea(user_input) \o InputWarning(user_input)
                             \o Spinner(Strip(user_input))
            /\ request' = [model |-> MODEL_ID, contents |-> BuildPrompt(Strip(user_input))]
            /\ api_calls' = api_calls + 1
            /\ pc' = "generating"
    /\ response' = NoResponse
    /\ poetry' = NoneVal
    /\ UNCHANGED <<api_key, client, user_input>>

\* generate_content returns or raises; the pass runs to its end
ApiReturn ==
    /\ pc = "generating"
    /\ \E resp \in Responses :
        /\ response' = resp
        /\ poetry' = PoetryOf(resp)
        /\ screen' = FormArea(user_input) \o InputWarning(user_input)
                         \o ResultArea(clean_word, PoetryOf(resp)) \o Footer
    /\ pc' = "idle"
    /\ UNCHANGED <<api_key, client, user_input, trigger, clean_word, request,
                   valid_submits, api_calls>>

Next == PageLoad \/ EditText \/ ClickRegenerate \/ ClickGenerate \/ ApiReturn

Spec == Init /\ [][Next]_vars

----------------------------------------------------------------------------
(* Presentation states of the page, read off the screen *)

Errors == SelectSeq(screen, LAMBDA e : e.kind = "error")

ResultShown == HasElement(El("subheader", HDR_RESULT))

DisplayResult == ResultShown /\ HasKind("success")

DisplayError == ResultShown /\ ~HasKind("success") /\ Len(Errors) = 1

ValidationFailed == trigger = "generate" /\ pc = "idle" /\ ~ResultShown /\ Len(Errors) = 1

Generating == pc = "generating"

IndexOf(e) == CHOOSE i \in DOMAIN screen : screen[i] = e

\* the elements between the blank line under the subject and the closing divider
RenderedPoem ==
    SubSeq(screen, IndexOf(El("subheader", HDR_RESULT)) + 4,
                   IndexOf(El("success", MSG_SUCCESS)) - 2)

HasHangulSyllable(s) == \E i \in DOMAIN s : s[i] \in 44032..55203

BeginsWith(s, p) == Len(s) >= Len(p) /\ \A i \in DOMAIN p : s[i] = p[i]

\* needle, in lower-case ASCII letters, occurs in hay in some letter case
OccursInAnyCase(needle, hay) ==
    \E off \in 0..(Len(hay) - Len(needle)) :
        \A k \in DOMAIN needle : hay[off + k] \in {needle[k], needle[k] - 32}

----------------------------------------------------------------------------
(* Claims *)

\* C1: the generation call is only ever made with a word that passed validation:
\* whenever main has called generate_korean_poetry (the pass is inside the API call,
\* or has come back from it), the submitted word is the trimmed text field, holds a
\* Hangul syllable and is 2 to 10 characters long, and the prompt sent embeds it; a
\* text field that is empty, blank, non-Korean, too short or too long never reaches
\* the Generating state.
C1_OnlyValidatedWordsAreGenerated ==
    /\ (Generating \/ request # NoRequest \/ response # NoResponse) =>
          /\ clean_word = Strip(user_input)
          /\ HasHangulSyllable(clean_word)
          /\ Len(Strip(clean_word)) >= 2 /\ Len(Strip(clean_word)) <= 10
          /\ request = [model |-> MODEL_ID,
                        contents |-> PROMPT_HEAD \o clean_word \o PROMPT_MID
                                        \o clean_word \o PROMPT_TAIL]
    /\ (~HasHangulSyllable(user_input) \/ Len(Strip(user_input)) < 2
            \/ Len(Strip(user_input)) > 10) =>
          (~Generating /\ request = NoRequest /\ response = NoResponse)

C1_Witness ==
    /\ Generating
    /\ Len(clean_word) = 10
    /\ Len(user_input) = 13

\* C2: validate_korean_input(text) is true exactly when text holds a character in
\* U+AC00..U+D7A3, whatever surrounds it; the inline "not Korean" warning of a pass
\* is shown exactly for a non-empty text without one.
C2_ValidateIffHangulSyllable ==
    /\ validate_korean_input(user_input) <=> HasHangulSyllable(user_input)
    /\ HasKind("text_input") =>
          (HasElement(El("warning", WARN_NOT_KOREAN))
              <=> (user_input # <<>> /\ ~HasHangulSyllable(user_input)))

C2_Witness ==
    /\ trigger = "edit"
    /\ user_input = <<55203, 97>>
    /\ validate_korean_input(user_input)
    /\ ~HasKind("warning")

\* C3: a submit with a Hangul word of trimmed length 1 ends in ValidationFailed with
\* the "2자 이상" error, one of trimmed length 11 or more with the "10자 이하" error,
\* both without an API call; every refused submit shows exactly one blocking error,
\* chosen in the order empty, not Korean, longer than 10, shorter than 2.
C3_LengthErrorsBlockTheCall ==
    (trigger = "generate" /\ (~HasHangulSyllable(user_input)
                                 \/ Len(Strip(user_input)) < 2
                                 \/ Len(Strip(user_input)) > 10)) =>
        /\ ValidationFailed
        /\ request = NoRequest /\ response = NoResponse /\ poetry = NoneVal
        /\ Errors = <<El("error",
                         IF Strip(user_input) = <<>> THEN ERR_EMPTY
                         ELSE IF ~HasHangulSyllable(user_input) THEN ERR_NOT_KOREAN
                         ELSE IF Len(Strip(user_input)) > 10 THEN ERR_TOO_LONG
                         ELSE ERR_TOO_SHORT)>>
        /\ (HasHangulSyllable(user_input) /\ Len(Strip(user_input)) = 1)
              => Errors[1].body = ERR_TOO_SHORT
        /\ (HasHangulSyllable(user_input) /\ Len(Strip(user_input)) >= 11)
              => Errors[1].body = ERR_TOO_LONG

C3_Witness ==
    /\ trigger = "generate"
    /\ HasHangulSyllable(user_input)
    /\ Len(Strip(user_input)) = 11
    /\ Errors = <<El("error", ERR_TOO_LONG)>>
    /\ api_calls = 0

\* C4: when the API call returns empty or absent text, generate_korean_poetry returns
\* the fixed message MSG_GEN_FAILED and the page shows it in the error banner, with
\* no poem line and no success banner.
C4_EmptyResponseIsAnError ==
    (response.kind = "text" /\ response.text \in {<<>>, NoneVal}) =>
        /\ poetry = MSG_GEN_FAILED
        /\ DisplayError /\ ~DisplayResult
        /\ Errors = <<El("error", MSG_GEN_FAILED)>>
        /\ screen[IndexOf(El("subheader", HDR_RESULT)) + 4] = El("error", MSG_GEN_FAILED)

C4_Witness ==
    /\ response = [kind |-> "text", text |-> <<>>]
    /\ HasElement(El("error", MSG_GEN_FAILED))

\* C5: when the API call raises, generate_korean_poetry returns a value: the encoding
\* message if the error message holds "ascii" or "codec" in any letter case, and
\* otherwise MSG_API_ERROR followed by the raw message; a message holding "codec"
\* never gives the generic message.
C5_RaisedErrorsBecomeMessages ==
    response.kind = "raise" =>
        /\ pc = "idle"
        /\ poetry # NoneVal
        /\ poetry = IF OccursInAnyCase(STR_ascii, response.text)
                        \/ OccursInAnyCase(STR_codec, response.text)
                    THEN MSG_ENCODING
                    ELSE MSG_API_ERROR \o response.text
        /\ OccursInAnyCase(STR_codec, response.text) =>
              ~BeginsWith(poetry, MSG_API_ERROR)

C5_Witness ==
    /\ response = [kind |-> "raise", text |-> ERR_CODEC_UPPER]
    /\ poetry = MSG_ENCODING

\* C6: every failure of the generation call (empty response, encoding error, generic
\* API error) ends in DisplayError with the failure message in the error banner, and
\* never in DisplayResult with the message as a poem line under the success banner.
C6_EveryFailureIsDisplayedAsError ==
    (response.kind = "raise"
        \/ (response.kind = "text" /\ response.text \in {<<>>, NoneVal})) =>
            /\ DisplayError /\ ~DisplayResult
            /\ Errors = <<El("error", poetry)>>

\* C7: no automatic retry: the calls made equal the submits made with a valid word;
\* a pass started by the submit button with a valid word makes one call, the return
\* of the call, failed or not, makes none, and a pass started by a page load, a text
\* edit or the "generate another" button makes none and shows the form with the
\* text field as the user left it.
C7_NoAutomaticRetry ==
    /\ [](api_calls = valid_submits)
    /\ [][ /\ (pc = "idle" /\ trigger' = "generate" /\ HasHangulSyllable(user_input)
                  /\ Len(Strip(user_input)) \in 2..10)
                 => api_calls' = api_calls + 1
           /\ pc = "generating" => (api_calls' = api_calls /\ pc' = "idle")
           /\ trigger' \in {"load", "edit", "regenerate"} =>
                 /\ api_calls' = api_calls
                 /\ pc' = "idle" /\ request' = NoRequest
           /\ trigger' = "regenerate" => user_input' = user_input
           /\ trigger' \in {"edit", "regenerate"} =>
                 /\ HasElement(El("text_input", user_input))'
         ]_vars

C7_Witness ==
    /\ trigger = "regenerate"
    /\ api_calls = 1
    /\ user_input = WORD_BADA
    /\ HasElement(El("text_input", WORD_BADA))

\* the first non-blank character of each line of s, the lines cut at line feeds
LineFirsts(s) ==
    {i \in DOMAIN s :
        /\ ~IsSpace(s[i])
        /\ \E a \in 1..i :
              /\ (a = 1 \/ s[a - 1] = 10)
              /\ \A k \in a..(i - 1) : IsSpace(s[k]) /\ s[k] # 10}

\* the last non-blank character of the line that position i lies on
LineLast(s, i) ==
    CHOOSE j \in i..Len(s) :
        /\ ~IsSpace(s[j])
        /\ \A k \in i..j : s[k] # 10
        /\ \A k \in (j + 1)..Len(s) :
              IsSpace(s[k]) \/ \E m \in (j + 1)..k : s[m] = 10

\* C8: in DisplayResult the poem lines rendered are the lines of the result text
\* (cut at line feeds) that are not blank, each trimmed and emphasized, in their
\* order, followed by the divider, one success banner and the button; the example
\* "[바]람이 분다\n[다]정히 웃는다" gives exactly two poem lines.
C8_PoemLinesAreTheNonBlankLines ==
    DisplayResult =>
        LET firsts == LineFirsts(poetry)
            nth(n) == CHOOSE i \in firsts : Cardinality({j \in firsts : j < i}) = n - 1
            last == IndexOf(El("success", MSG_SUCCESS))
        IN  /\ Len(RenderedPoem) = Cardinality(firsts)
            /\ \A n \in DOMAIN RenderedPoem :
                  RenderedPoem[n] =
                      El("markdown",
                         BOLD \o SubSeq(poetry, nth(n), LineLast(poetry, nth(n))) \o BOLD)
            /\ Len(SelectSeq(screen, LAMBDA e : e.kind = "success")) = 1
            /\ screen[last - 1] = El("markdown", DIVIDER)
            /\ poetry = EXAMPLE_POEM => Len(RenderedPoem) = 2

C8_Witness ==
    /\ DisplayResult
    /\ poetry = EXAMPLE_POEM
    /\ Len(RenderedPoem) = 2

\* C9: while the credential is unset or empty, every pass stops at the configuration
\* error: the screen holds that error alone, no form, no client is built and no API
\* call is ever made.
C9_MissingCredentialHalts ==
    (api_key \in {NoneVal, <<>>}) =>
        /\ client = "none"
        /\ api_calls = 0 /\ request = NoRequest /\ pc = "idle"
        /\ ~HasKind("text_input") /\ ~HasKind("button")
        /\ trigger # "none" => screen = <<El("error", MSG_NO_KEY)>>

C9_Witness ==
    /\ api_key = <<>>
    /\ trigger = "load"
    /\ screen = <<El("error", MSG_NO_KEY)>>

\* C10 as claimed: every non-empty response text, whitespace-only text and text that
\* begins with a failure prefix included, comes back as a non-empty trimmed payload
\* and is displayed in DisplayResult.
C10_EveryNonEmptyResponseIsDisplayed ==
    (response.kind = "text" /\ response.text \notin {<<>>, NoneVal}) =>
        /\ poetry # <<>> /\ poetry # NoneVal
        /\ DisplayResult /\ ~DisplayError

\* C10 as amended: a non-empty response text comes back trimmed; the page is in
\* DisplayResult when the trimmed text is non-empty and begins with neither
\* "행시 생성에 실패" nor "API 오류", and in DisplayError, the trimmed text in the
\* error banner, otherwise.
C10_NonEmptyResponseDisplayedUnlessBlankOrPrefixed ==
    (response.kind = "text" /\ response.text \notin {<<>>, NoneVal}) =>
        LET text == response.text
            a == CHOOSE i \in 1..(Len(text) + 1) :
                     /\ \A k \in 1..(i - 1) : IsSpace(text[k])
                     /\ i <= Len(text) => ~IsSpace(text[i])
            b == CHOOSE j \in 0..Len(text) :
                     /\ \A k \in (j + 1)..Len(text) : IsSpace(text[k])
                     /\ j >= 1 => ~IsSpace(text[j])
            trimmed == SubSeq(text, a, b)
        IN  /\ poetry = trimmed
            /\ IF trimmed # <<>> /\ ~BeginsWith(trimmed, PREFIX_GEN_FAILED)
                     /\ ~BeginsWith(trimmed, PREFIX_API_ERROR)
               THEN DisplayResult /\ ~DisplayError /\ Len(RenderedPoem) >= 1
               ELSE DisplayError /\ ~DisplayResult /\ Errors = <<El("error", trimmed)>>

C10_Witness ==
    /\ response = [kind |-> "text", text |-> CRLF_POEM]
    /\ DisplayResult
    /\ Len(RenderedPoem) = 2

====
